---- MODULE Spec2Model ----
(***************************************************************************)
(* European M&A deal scraper (scraper/european_ma_scraper.py).             *)
(*                                                                         *)
(* Strings are sequences of one-character strings, so that the regular     *)
(* expressions, the substring tests and str.lower() of the source are      *)
(* computed character by character.                                        *)
(***************************************************************************)
EXTENDS Integers, Sequences, FiniteSets, TLC

\* ------------------------------------------------------------------------
\* Characters and the string primitives of Python the source relies on
\* ------------------------------------------------------------------------

Digits == <<"0", "1", "2", "3", "4", "5", "6", "7", "8", "9">>
Lowercase == <<"a", "b", "c", "d", "e", "f", "g", "h", "i", "j", "k", "l", "m", "n", "o", "p", "q", "r", "s", "t", "u", "v", "w", "x", "y", "z", "ü", "ö">>
Uppercase == <<"A", "B", "C", "D", "E", "F", "G", "H", "I", "J", "K", "L", "M", "N", "O", "P", "Q", "R", "S", "T", "U", "V", "W", "X", "Y", "Z", "Ü", "Ö">>

Range(s) == {s[i] : i \in DOMAIN s}

\* regex class \d
IsDigit(c) == c \in Range(Digits)

\* regex class \w (letters, digits, underscore)
IsWord(c) == c \in Range(Lowercase) \cup Range(Uppercase) \cup Range(Digits) \cup {"_"}

\* regex class \s
IsSpace(c) == c \in {" ", "\t", "\n"}

\* str.lower() of one character
LowerChar(c) ==
    IF c \in Range(Uppercase)
    THEN Lowercase[CHOOSE i \in DOMAIN Uppercase : Uppercase[i] = c]
    ELSE c

\* str.lower()
lower(s) == [i \in 1..Len(s) |-> LowerChar(s[i])]

\* s[a:b] with 1-based inclusive positions; empty when b < a
Slice(s, a, b) == IF b < a THEN <<>> ELSE SubSeq(s, a, b)

\* Python's `k in s` on strings
Contains(s, k) == \E i \in 0..(Len(s) - Len(k)) : Slice(s, i + 1, i + Len(k)) = k

\* the literal k, compared case-insensitively (re.IGNORECASE), lies at position p of t
LiteralAt(t, p, k) ==
    /\ p >= 1
    /\ p + Len(k) - 1 <= Len(t)
    /\ lower(Slice(t, p, p + Len(k) - 1)) = lower(k)

\* str.strip(): the first and last positions that are not white space
RECURSIVE LStrip(_)
LStrip(s) == IF s # <<>> /\ IsSpace(Head(s)) THEN LStrip(Tail(s)) ELSE s
RECURSIVE RStrip(_)
RStrip(s) == IF s # <<>> /\ IsSpace(s[Len(s)]) THEN RStrip(Slice(s, 1, Len(s) - 1)) ELSE s
strip(s) == RStrip(LStrip(s))

\* any(keyword in text for keyword in keywords)
AnyKeywordIn(keywords, text) == \E i \in DOMAIN keywords : Contains(text, keywords[i])

\* ------------------------------------------------------------------------
\* Regex building blocks
\* ------------------------------------------------------------------------

\* the first position >= p that holds no digit (greedy \d*)
RECURSIVE DigitsEnd(_, _)
DigitsEnd(t, p) == IF p <= Len(t) /\ IsDigit(t[p]) THEN DigitsEnd(t, p + 1) ELSE p

\* the first position >= p that holds no white space (greedy \s*)
RECURSIVE SkipSpace(_, _)
SkipSpace(t, p) == IF p <= Len(t) /\ IsSpace(t[p]) THEN SkipSpace(t, p + 1) ELSE p

\* the first position >= p that holds no word character (greedy \w*)
RECURSIVE WordEnd(_, _)
WordEnd(t, p) == IF p <= Len(t) /\ IsWord(t[p]) THEN WordEnd(t, p + 1) ELSE p

\* \d+(?:\.\d+)? at p: the position after the number, or 0 when no digit is at p.
\* A shorter number never lets the rest of a value pattern match (the next
\* character would be a digit or "."), so the greedy end is the only one.
NumberEnd(t, p) ==
    LET e == DigitsEnd(t, p)
    IN  IF e = p THEN 0
        ELSE IF e <= Len(t) /\ t[e] = "." /\ DigitsEnd(t, e + 1) > e + 1
             THEN DigitsEnd(t, e + 1)
             ELSE e

\* (a|b|...) at p: the index of the first alternative that matches, 0 when none
FirstAlt(alts, t, p) ==
    IF \E i \in DOMAIN alts : LiteralAt(t, p, alts[i])
    THEN CHOOSE i \in DOMAIN alts :
            /\ LiteralAt(t, p, alts[i])
            /\ \A j \in 1..(i - 1) : ~LiteralAt(t, p, alts[j])
    ELSE 0

SetMin(S) == CHOOSE x \in S : \A y \in S : x <= y
SetMax(S) == CHOOSE x \in S : \A y \in S : x >= y

\* ------------------------------------------------------------------------
\* Value and currency (_parse_deal_details, first loop)
\* ------------------------------------------------------------------------

NoMatch == [found |-> FALSE]

\* the three patterns, in the order of the list: a literal symbol, the number,
\* \s*, the unit alternatives and, for the third, \s* and the currency word
value_patterns == <<
    [sym |-> <<"€">>, units |-> <<<<"m", "i", "l", "l", "i", "o", "n">>, <<"b", "i", "l", "l", "i", "o", "n">>, <<"m">>, <<"b">>>>, tail |-> <<>>],
    [sym |-> <<"$">>, units |-> <<<<"m", "i", "l", "l", "i", "o", "n">>, <<"b", "i", "l", "l", "i", "o", "n">>, <<"m">>, <<"b">>>>, tail |-> <<>>],
    [sym |-> <<>>, units |-> <<<<"m", "i", "l", "l", "i", "o", "n">>, <<"b", "i", "l", "l", "i", "o", "n">>>>,
     tail |-> <<<<"e", "u", "r", "o">>, <<"e", "u", "r">>, <<"€">>>>] >>

\* the match of pattern pat that starts at position p of t, if there is one:
\* group0 is match.group(0), group1 is match.group(1)
ValueMatchAt(pat, t, p) ==
    IF ~LiteralAt(t, p, pat.sym) THEN NoMatch
    ELSE
    LET n0 == p + Len(pat.sym)
        n1 == NumberEnd(t, n0)
    IN  IF n1 = 0 THEN NoMatch
        ELSE
        LET u0 == SkipSpace(t, n1)
            u == FirstAlt(pat.units, t, u0)
        IN  IF u = 0 THEN NoMatch
            ELSE
            LET u1 == u0 + Len(pat.units[u])
                c0 == SkipSpace(t, u1)
                c == FirstAlt(pat.tail, t, c0)
                end == IF pat.tail = <<>> THEN u1 - 1 ELSE c0 + Len(pat.tail[c]) - 1
            IN  IF pat.tail # <<>> /\ c = 0 THEN NoMatch
                ELSE [found |-> TRUE, start |-> p,
                      group0 |-> Slice(t, p, end), group1 |-> Slice(t, n0, n1 - 1)]

\* re.search(pattern, text, re.IGNORECASE): the leftmost match
ValueSearch(pat, t) ==
    LET starts == {p \in 1..Len(t) : ValueMatchAt(pat, t, p).found}
    IN  IF starts = {} THEN NoMatch ELSE ValueMatchAt(pat, t, SetMin(starts))

RECURSIVE DigitsValue(_)
DigitsValue(ds) ==
    IF ds = <<>> THEN 0
    ELSE 10 * DigitsValue(Slice(ds, 1, Len(ds) - 1))
         + ((CHOOSE i \in DOMAIN Digits : Digits[i] = ds[Len(ds)]) - 1)

RECURSIVE Pow10(_)
Pow10(k) == IF k = 0 THEN 1 ELSE 10 * Pow10(k - 1)

\* a real number num/den, den a power of ten, in lowest such terms, so that
\* equal numbers are equal values (120 = 120.0)
RECURSIVE Number(_, _)
Number(num, den) ==
    IF den > 1 /\ num % 10 = 0 THEN Number(num \div 10, den \div 10)
    ELSE [num |-> num, den |-> den]

\* float(match.group(1))
float(g) ==
    LET e == DigitsEnd(g, 1)
        frac == Slice(g, e + 1, Len(g))
    IN  Number(DigitsValue(Slice(g, 1, e - 1)) * Pow10(Len(frac)) + DigitsValue(frac),
               Pow10(Len(frac)))

Times(v, k) == Number(v.num * k, v.den)

\* a variant that knows the word only, not the "b" marker
IsBillionWordOnly(group0) == Contains(lower(group0), <<"b", "i", "l", "l", "i", "o", "n">>)

\* 'billion' in match.group(0).lower() or 'b' in match.group(0).lower()
IsBillion(group0) == Contains(lower(group0), <<"b", "i", "l", "l", "i", "o", "n">>) \/ Contains(lower(group0), <<"b">>)

\* '€' in match.group(0) or 'euro' in match.group(0).lower()
IsEuro(group0) == Contains(group0, <<"€">>) \/ Contains(lower(group0), <<"e", "u", "r", "o">>)

\* the value and currency keys one match sets
ValueKeys(m) ==
    ("value" :> (IF IsBillion(m.group0) THEN Times(float(m.group1), 1000) ELSE float(m.group1)))
    @@ ("currency" :> (IF IsEuro(m.group0) THEN "EUR" ELSE "USD"))

\* a variant that takes the match that starts first in the text, whatever its pattern
ExtractValueLeftmost(text, i) ==
    LET found == {k \in i..Len(value_patterns) : ValueSearch(value_patterns[k], text).found}
        first == CHOOSE k \in found : \A j \in found :
                    \/ ValueSearch(value_patterns[k], text).start
                          < ValueSearch(value_patterns[j], text).start
                    \/ /\ ValueSearch(value_patterns[k], text).start
                            = ValueSearch(value_patterns[j], text).start
                       /\ k <= j
    IN  IF found = {} THEN <<>> ELSE ValueKeys(ValueSearch(value_patterns[first], text))

\* for pattern in value_patterns: ... break, from pattern i on
RECURSIVE ExtractValue(_, _)
ExtractValue(text, i) ==
    IF i > Len(value_patterns) THEN <<>>
    ELSE LET m == ValueSearch(value_patterns[i], text)
         IN  IF m.found THEN ValueKeys(m) ELSE ExtractValue(text, i + 1)

\* ------------------------------------------------------------------------
\* Company names (_parse_deal_details, second and third loops)
\* ------------------------------------------------------------------------

\* \w+(?:\s+\w+)* from the word character at p: the last position of every
\* word of the run of words, the ends the group can back off to
RECURSIVE WordRunEnds(_, _)
WordRunEnds(t, p) ==
    LET e == WordEnd(t, p)
        q == SkipSpace(t, e)
    IN  {e - 1} \cup (IF q > e /\ q <= Len(t) /\ IsWord(t[q]) THEN WordRunEnds(t, q) ELSE {})

\* \s+(?:a|b|...) at p
FollowAt(alts, t, p) ==
    LET q == SkipSpace(t, p)
    IN  q > p /\ FirstAlt(alts, t, q) # 0

\* what follows the captured group in each acquirer pattern
acquirer_patterns == <<
    <<<<"a", "c", "q", "u", "i", "r", "e", "s">>, <<"b", "u", "y", "s">>, <<"p", "u", "r", "c", "h", "a", "s", "e", "s">>>>,
    << <<"t", "o", " ", "a", "c", "q", "u", "i", "r", "e">> >> >>

\* (\w+(?:\s+\w+)*)\s+(?:...) from position p: the group is greedy, so it ends
\* at the last word of the run that the rest of the pattern follows
AcquirerMatchAt(alts, t, p) ==
    IF ~IsWord(t[p]) THEN NoMatch
    ELSE LET ends == {e \in WordRunEnds(t, p) : FollowAt(alts, t, e + 1)}
         IN  IF ends = {} THEN NoMatch
             ELSE [found |-> TRUE, start |-> p, group1 |-> Slice(t, p, SetMax(ends))]

AcquirerSearch(alts, t) ==
    LET starts == {p \in 1..Len(t) : AcquirerMatchAt(alts, t, p).found}
    IN  IF starts = {} THEN NoMatch ELSE AcquirerMatchAt(alts, t, SetMin(starts))

RECURSIVE ExtractAcquirer(_, _)
ExtractAcquirer(t, i) ==
    IF i > Len(acquirer_patterns) THEN <<>>
    ELSE LET m == AcquirerSearch(acquirer_patterns[i], t)
         IN  IF m.found THEN "acquirer" :> strip(m.group1) ELSE ExtractAcquirer(t, i + 1)

\* the verb each target pattern starts with
target_patterns == <<<<"a", "c", "q", "u", "i", "r", "e", "s">>, <<"b", "u", "y", "s">>, <<"p", "u", "r", "c", "h", "a", "s", "e", "s">>>>

\* verb\s+(\w+(?:\s+\w+)*) from position p: nothing follows the group, so it
\* takes the whole run of words
TargetMatchAt(verb, t, p) ==
    LET q == SkipSpace(t, p + Len(verb))
    IN  IF LiteralAt(t, p, verb) /\ q > p + Len(verb) /\ q <= Len(t) /\ IsWord(t[q])
        THEN [found |-> TRUE, start |-> p, group1 |-> Slice(t, q, SetMax(WordRunEnds(t, q)))]
        ELSE NoMatch

TargetSearch(verb, t) ==
    LET starts == {p \in 1..Len(t) : TargetMatchAt(verb, t, p).found}
    IN  IF starts = {} THEN NoMatch ELSE TargetMatchAt(verb, t, SetMin(starts))

RECURSIVE ExtractTarget(_, _)
ExtractTarget(t, i) ==
    IF i > Len(target_patterns) THEN <<>>
    ELSE LET m == TargetSearch(target_patterns[i], t)
         IN  IF m.found THEN "target" :> strip(m.group1) ELSE ExtractTarget(t, i + 1)

\* title + " " + text
TitleAndText(title, text) == title \o <<" ">> \o text

\* the dictionary _parse_deal_details returns: the value patterns search the
\* text, the name patterns search the title joined to the text
_parse_deal_details(title, text) ==
    ExtractValue(text, 1)
    @@ ExtractAcquirer(TitleAndText(title, text), 1)
    @@ ExtractTarget(TitleAndText(title, text), 1)

\* dict.get(key, default)
Get(d, key, default) == IF key \in DOMAIN d THEN d[key] ELSE default

\* ------------------------------------------------------------------------
\* Admission (_meets_criteria)
\* ------------------------------------------------------------------------

MIN_DEAL_VALUE == 10
MAX_DEAL_VALUE == 500

\* Python's None
None == [none |-> TRUE]

\* the truth value of `value`: None and 0.0 are false
Truthy(value) == value # None /\ value.num # 0

\* MIN_DEAL_VALUE <= value <= MAX_DEAL_VALUE
InRange(value) ==
    /\ MIN_DEAL_VALUE * value.den <= value.num
    /\ value.num <= MAX_DEAL_VALUE * value.den

_meets_criteria(deal_info) ==
    LET value == Get(deal_info, "value", None)
    IN  IF Truthy(value) /\ ~InRange(value) THEN FALSE ELSE TRUE

\* ------------------------------------------------------------------------
\* Classifiers (_classify_industry, _identify_country)
\* ------------------------------------------------------------------------

industry_keywords == <<
    [label |-> "Technology", keywords |-> <<<<"t", "e", "c", "h">>, <<"s", "o", "f", "t", "w", "a", "r", "e">>, <<"d", "i", "g", "i", "t", "a", "l">>, <<"a", "i">>, <<"c", "l", "o", "u", "d">>, <<"s", "a", "a", "s">>>>],
    [label |-> "Healthcare", keywords |-> <<<<"h", "e", "a", "l", "t", "h">>, <<"m", "e", "d", "i", "c", "a", "l">>, <<"p", "h", "a", "r", "m", "a">>, <<"b", "i", "o", "t", "e", "c", "h">>, <<"d", "r", "u", "g">>>>],
    [label |-> "Financial Services", keywords |-> <<<<"b", "a", "n", "k">>, <<"f", "i", "n", "a", "n", "c", "e">>, <<"f", "i", "n", "t", "e", "c", "h">>, <<"i", "n", "s", "u", "r", "a", "n", "c", "e">>>>],
    [label |-> "Energy", keywords |-> <<<<"e", "n", "e", "r", "g", "y">>, <<"o", "i", "l">>, <<"g", "a", "s">>, <<"r", "e", "n", "e", "w", "a", "b", "l", "e">>, <<"s", "o", "l", "a", "r">>>>],
    [label |-> "Manufacturing", keywords |-> <<<<"m", "a", "n", "u", "f", "a", "c", "t", "u", "r", "i", "n", "g">>, <<"i", "n", "d", "u", "s", "t", "r", "i", "a", "l">>, <<"f", "a", "c", "t", "o", "r", "y">>>>],
    [label |-> "Retail", keywords |-> <<<<"r", "e", "t", "a", "i", "l">>, <<"c", "o", "n", "s", "u", "m", "e", "r">>, <<"s", "h", "o", "p", "p", "i", "n", "g">>, <<"e", "-", "c", "o", "m", "m", "e", "r", "c", "e">>>>],
    [label |-> "Real Estate", keywords |-> <<<<"r", "e", "a", "l", " ", "e", "s", "t", "a", "t", "e">>, <<"p", "r", "o", "p", "e", "r", "t", "y">>, <<"c", "o", "n", "s", "t", "r", "u", "c", "t", "i", "o", "n">>>>],
    [label |-> "Media", keywords |-> <<<<"m", "e", "d", "i", "a">>, <<"e", "n", "t", "e", "r", "t", "a", "i", "n", "m", "e", "n", "t">>, <<"b", "r", "o", "a", "d", "c", "a", "s", "t", "i", "n", "g">>, <<"p", "u", "b", "l", "i", "s", "h", "i", "n", "g">>>>],
    [label |-> "Telecommunications", keywords |-> <<<<"t", "e", "l", "e", "c", "o", "m">>, <<"m", "o", "b", "i", "l", "e">>, <<"n", "e", "t", "w", "o", "r", "k">>, <<"5", "g">>>>],
    [label |-> "Automotive", keywords |-> <<<<"a", "u", "t", "o", "m", "o", "t", "i", "v", "e">>, <<"c", "a", "r">>, <<"v", "e", "h", "i", "c", "l", "e">>, <<"m", "o", "b", "i", "l", "i", "t", "y">>>> ] >>

country_keywords == <<
    [label |-> "Germany", keywords |-> <<<<"g", "e", "r", "m", "a", "n", "y">>, <<"g", "e", "r", "m", "a", "n">>, <<"d", "e", "u", "t", "s", "c", "h", "l", "a", "n", "d">>, <<"b", "e", "r", "l", "i", "n">>, <<"m", "u", "n", "i", "c", "h">>, <<"f", "r", "a", "n", "k", "f", "u", "r", "t">>>>],
    [label |-> "Austria", keywords |-> <<<<"a", "u", "s", "t", "r", "i", "a">>, <<"a", "u", "s", "t", "r", "i", "a", "n">>, <<"v", "i", "e", "n", "n", "a">>, <<"ö", "s", "t", "e", "r", "r", "e", "i", "c", "h">>>>],
    [label |-> "Switzerland", keywords |-> <<<<"s", "w", "i", "t", "z", "e", "r", "l", "a", "n", "d">>, <<"s", "w", "i", "s", "s">>, <<"z", "u", "r", "i", "c", "h">>, <<"g", "e", "n", "e", "v", "a">>, <<"s", "c", "h", "w", "e", "i", "z">>>>],
    [label |-> "Netherlands", keywords |-> <<<<"n", "e", "t", "h", "e", "r", "l", "a", "n", "d", "s">>, <<"d", "u", "t", "c", "h">>, <<"a", "m", "s", "t", "e", "r", "d", "a", "m">>, <<"r", "o", "t", "t", "e", "r", "d", "a", "m">>>>],
    [label |-> "Belgium", keywords |-> <<<<"b", "e", "l", "g", "i", "u", "m">>, <<"b", "e", "l", "g", "i", "a", "n">>, <<"b", "r", "u", "s", "s", "e", "l", "s">>, <<"a", "n", "t", "w", "e", "r", "p">>>>],
    [label |-> "Luxembourg", keywords |-> <<<<"l", "u", "x", "e", "m", "b", "o", "u", "r", "g">>, <<"l", "u", "x", "e", "m", "b", "o", "u", "r", "g", "i", "s", "h">>>> ] >>

\* for label, keywords in table.items(): if any(...): return label
RECURSIVE FirstLabel(_, _, _, _)
FirstLabel(table, text_lower, i, sentinel) ==
    IF i > Len(table) THEN sentinel
    ELSE IF AnyKeywordIn(table[i].keywords, text_lower) THEN table[i].label
    ELSE FirstLabel(table, text_lower, i + 1, sentinel)

_classify_industry(text) == FirstLabel(industry_keywords, lower(text), 1, "Other")

_identify_country(text) == FirstLabel(country_keywords, lower(text), 1, "Unknown")

TARGET_COUNTRIES == <<
    [region |-> "DACH", countries |-> {"Germany", "Austria", "Switzerland"}],
    [region |-> "Benelux", countries |-> {"Netherlands", "Belgium", "Luxembourg"}] >>

\* ------------------------------------------------------------------------
\* Relevance (_is_ma_related)
\* ------------------------------------------------------------------------

DEAL_KEYWORDS == <<
    <<"a", "c", "q", "u", "i", "r", "e", "s">>, <<"a", "c", "q", "u", "i", "s", "i", "t", "i", "o", "n">>, <<"m", "e", "r", "g", "e", "r">>, <<"b", "u", "y", "o", "u", "t">>, <<"t", "a", "k", "e", "o", "v", "e", "r">>,
    <<"i", "n", "v", "e", "s", "t", "m", "e", "n", "t">>, <<"f", "u", "n", "d", "i", "n", "g">>, <<"j", "o", "i", "n", "t", " ", "v", "e", "n", "t", "u", "r", "e">>, <<"p", "a", "r", "t", "n", "e", "r", "s", "h", "i", "p">>,
    <<"e", "r", "w", "i", "r", "b", "t">>, <<"ü", "b", "e", "r", "n", "a", "h", "m", "e">>, <<"f", "u", "s", "i", "o", "n">>, <<"i", "n", "v", "e", "s", "t", "i", "t", "i", "o", "n">>,
    <<"k", "o", "o", "p", "t">>, <<"o", "v", "e", "r", "n", "a", "m", "e">>, <<"f", "u", "s", "i", "e">>, <<"i", "n", "v", "e", "s", "t", "e", "r", "i", "n", "g">> >>

_is_ma_related(text) == AnyKeywordIn(DEAL_KEYWORDS, lower(text))


\* ------------------------------------------------------------------------
\* Dates (_parse_date)
\* ------------------------------------------------------------------------

NoDate == [ok |-> FALSE]

MonthNames == <<<<"j", "a", "n">>, <<"f", "e", "b">>, <<"m", "a", "r">>, <<"a", "p", "r">>, <<"m", "a", "y">>, <<"j", "u", "n">>,
                <<"j", "u", "l">>, <<"a", "u", "g">>, <<"s", "e", "p">>, <<"o", "c", "t">>, <<"n", "o", "v">>, <<"d", "e", "c">>>>

\* the directives of the two formats: a number of wmin..wmax digits in lo..hi,
\* a literal character, white space (\s+), or an abbreviated month name
Num(name, wmin, wmax, lo, hi) ==
    [kind |-> "num", name |-> name, wmin |-> wmin, wmax |-> wmax, lo |-> lo, hi |-> hi]
Lit(c) == [kind |-> "lit", c |-> c]
IsoFormat == <<Num("Y", 4, 4, 0, 9999), Lit("-"), Num("m", 1, 2, 1, 12), Lit("-"),
               Num("d", 1, 2, 1, 31), Lit("T"), Num("H", 1, 2, 0, 23), Lit(":"),
               Num("M", 1, 2, 0, 59), Lit(":"), Num("S", 1, 2, 0, 61)>>
RssFormat == <<Num("d", 1, 2, 1, 31), [kind |-> "ws"], [kind |-> "mon"], [kind |-> "ws"],
               Num("Y", 4, 4, 0, 9999)>>

IsLeap(y) == (y % 4 = 0 /\ y % 100 # 0) \/ y % 400 = 0

DaysInMonth(y, m) ==
    IF m = 2 THEN (IF IsLeap(y) THEN 29 ELSE 28)
    ELSE IF m \in {4, 6, 9, 11} THEN 30 ELSE 31

\* the fields format item i onwards reads from position p of s, added to acc;
\* the whole string must be consumed. Every numeric field is followed by a
\* non-digit or by the end, so it takes the whole run of digits.
RECURSIVE ParseFields(_, _, _, _, _)
ParseFields(fmt, i, s, p, acc) ==
    IF i > Len(fmt) THEN (IF p = Len(s) + 1 THEN [ok |-> TRUE, f |-> acc] ELSE NoDate)
    ELSE
    LET it == fmt[i]
    IN  CASE it.kind = "num" ->
               LET e == DigitsEnd(s, p)
                   v == DigitsValue(Slice(s, p, e - 1))
               IN  IF (e - p) \in it.wmin..it.wmax /\ v \in it.lo..it.hi
                   THEN ParseFields(fmt, i + 1, s, e, acc @@ (it.name :> v))
                   ELSE NoDate
          [] it.kind = "lit" ->
               IF LiteralAt(s, p, <<it.c>>) THEN ParseFields(fmt, i + 1, s, p + 1, acc)
               ELSE NoDate
          [] it.kind = "ws" ->
               IF SkipSpace(s, p) > p THEN ParseFields(fmt, i + 1, s, SkipSpace(s, p), acc)
               ELSE NoDate
          [] it.kind = "mon" ->
               LET k == FirstAlt(MonthNames, s, p)
               IN  IF k # 0 THEN ParseFields(fmt, i + 1, s, p + Len(MonthNames[k]), acc @@ ("m" :> k))
                   ELSE NoDate

\* datetime.strptime(s, format).date(): the fields must form a real date and time
strptime(s, fmt) ==
    LET r == ParseFields(fmt, 1, s, 1, <<>>)
    IN  IF r.ok /\ r.f.Y >= 1 /\ r.f.d <= DaysInMonth(r.f.Y, r.f.m)
             /\ Get(r.f, "S", 0) <= 59
        THEN [ok |-> TRUE, y |-> r.f.Y, m |-> r.f.m, d |-> r.f.d]
        ELSE NoDate

\* the decimal digits of n, padded with zeros to width w
RECURSIVE Pad(_, _)
Pad(n, w) == IF w = 0 THEN <<>> ELSE Pad(n \div 10, w - 1) \o <<Digits[(n % 10) + 1]>>

\* date.isoformat()
isoformat(date) == Pad(date.y, 4) \o <<"-">> \o Pad(date.m, 2) \o <<"-">> \o Pad(date.d, 2)

\* str.split(sep): the pieces between the occurrences of the character sep
RECURSIVE split(_, _)
split(s, sep) ==
    IF \E i \in DOMAIN s : s[i] = sep
    THEN LET i == SetMin({j \in DOMAIN s : s[j] = sep})
         IN  <<Slice(s, 1, i - 1)>> \o split(Slice(s, i + 1, Len(s)), sep)
    ELSE <<s>>

\* s[:n]
Prefix(s, n) == Slice(s, 1, IF Len(s) < n THEN Len(s) ELSE n)

\* a variant that stamps every record with the current date
_parse_date_today(date_str, today) == isoformat(today)

\* today is datetime.now().date()
_parse_date(date_str, today) ==
    IF date_str = <<>> THEN isoformat(today)
    ELSE
    LET d1 == strptime(Prefix(date_str, 19), IsoFormat)
        parts == split(date_str, ",")
        d2 == IF Len(parts) < 2 THEN NoDate
              ELSE strptime(Prefix(strip(parts[2]), 11), RssFormat)
    IN  IF d1.ok THEN isoformat(d1)
        ELSE IF d2.ok THEN isoformat(d2)
        ELSE isoformat(today)

\* ------------------------------------------------------------------------
\* The clock
\* ------------------------------------------------------------------------

\* the date of the first day of the model's clock
Epoch == [y |-> 2024, m |-> 12, d |-> 31]

NextDay(date) ==
    IF date.d < DaysInMonth(date.y, date.m) THEN [date EXCEPT !.d = @ + 1]
    ELSE IF date.m < 12 THEN [date EXCEPT !.m = @ + 1, !.d = 1]
    ELSE [y |-> date.y + 1, m |-> 1, d |-> 1]

\* datetime.now().date() on day n of the clock
RECURSIVE DateOfDay(_)
DateOfDay(n) == IF n = 0 THEN Epoch ELSE NextDay(DateOfDay(n - 1))


\* ------------------------------------------------------------------------
\* The feeds and the pages behind the links
\* ------------------------------------------------------------------------

\* the entries the feeds can hold
Entries == {
    [title |-> <<"T", "e", "c", "h", "C", "o", "r", "p", " ", "a", "c", "q", "u", "i", "r", "e", "s", " ", "S", "t", "a", "r", "t", "u", "p", "X">>, link |-> "u1",
     published |-> <<"2", "0", "2", "4", "-", "0", "3", "-", "1", "5", "T", "1", "0", ":", "0", "0", ":", "0", "0", "Z">>, summary |-> <<>>],
    [title |-> <<"B", "a", "n", "k", " ", "m", "e", "r", "g", "e", "r">>, link |-> "u2",
     published |-> <<>>, summary |-> <<>>],
    [title |-> <<"M", "e", "r", "g", "e", "r", " ", "t", "a", "l", "k", "s", " ", "s", "t", "a", "l", "l">>, link |-> "u3",
     published |-> <<"F", "r", "i", ",", " ", "1", "5", " ", "M", "a", "r", " ", "2", "0", "2", "4", " ", "1", "0", ":", "0", "0", ":", "0", "0", " ", "G", "M", "T">>, summary |-> <<>>],
    [title |-> <<"S", "i", "e", "m", "e", "n", "s", " ", "b", "u", "y", "s", " ", "D", "u", "t", "c", "h", " ", "s", "o", "f", "t", "w", "a", "r", "e", " ", "f", "i", "r", "m", " ", "f", "o", "r", " ", "$", "8", "0", "m">>, link |-> "u4",
     published |-> <<"y", "e", "s", "t", "e", "r", "d", "a", "y">>, summary |-> <<"A", " ", "t", "a", "k", "e", "o", "v", "e", "r">>],
    [title |-> <<"A", "c", "m", "e", " ", "t", "o", " ", "a", "c", "q", "u", "i", "r", "e", " ", "W", "i", "d", "g", "e", "t">>, link |-> "u5",
     published |-> <<"2", "0", "2", "4", "-", "0", "2", "-", "3", "0", "T", "0", "9", ":", "0", "0", ":", "0", "0", "Z">>, summary |-> <<"A", "c", "q", "u", "i", "s", "i", "t", "i", "o", "n", " ", "o", "f", " ", "W", "i", "d", "g", "e", "t">>],
    [title |-> <<"W", "e", "a", "t", "h", "e", "r", " ", "r", "e", "p", "o", "r", "t">>, link |-> "u6",
     published |-> <<"2", "0", "2", "4", "-", "0", "3", "-", "1", "5", "T", "1", "0", ":", "0", "0", ":", "0", "0", "Z">>, summary |-> <<"R", "a", "i", "n">>] }

\* the text of the page each link leads to
Page == [u1 |-> <<"T", "e", "c", "h", "C", "o", "r", "p", " ", "a", "c", "q", "u", "i", "r", "e", "s", " ", "S", "t", "a", "r", "t", "u", "p", "X", " ", "f", "o", "r", " ", "€", "1", "2", "0", " ", "m", "i", "l", "l", "i", "o", "n", ",", " ", "e", "x", "p", "a", "n", "d", "i", "n", "g", " ", "i", "t", "s", " ", "S", "a", "a", "S", " ", "p", "o", "r", "t", "f", "o", "l", "i", "o", " ", "i", "n", " ", "G", "e", "r", "m", "a", "n", "y", ".">>,
         u2 |-> <<"S", "w", "i", "s", "s", " ", "b", "a", "n", "k", " ", "t", "a", "k", "e", "o", "v", "e", "r", " ", "v", "a", "l", "u", "e", "d", " ", "a", "t", " ", "€", "0", " ", "m", "i", "l", "l", "i", "o", "n">>,
         u3 |-> <<"T", "e", "r", "m", "s", " ", "w", "e", "r", "e", " ", "n", "o", "t", " ", "d", "i", "s", "c", "l", "o", "s", "e", "d", ".">>,
         u4 |-> <<"T", "e", "r", "m", "s", " ", "w", "e", "r", "e", " ", "n", "o", "t", " ", "d", "i", "s", "c", "l", "o", "s", "e", "d", ".">>,
         u5 |-> <<"R", "i", "v", "a", "l", " ", "b", "i", "d", " ", "$", "2", "B", ";", " ", "A", "c", "m", "e", " ", "t", "o", " ", "a", "c", "q", "u", "i", "r", "e", " ", "W", "i", "d", "g", "e", "t", " ", "o", "f", " ", "A", "m", "s", "t", "e", "r", "d", "a", "m", " ", "f", "o", "r", " ", "€", "1", ".", "2", " ", "b", "i", "l", "l", "i", "o", "n", " ", "b", "y", " ", "J", "u", "n", "e">>,
         u6 |-> <<"R", "a", "i", "n", " ", "i", "n", " ", "B", "e", "r", "l", "i", "n">>]

MaxFeed == 3
MaxRuns == 2
MaxTick == 3
MaxDay == 1

\* what the feeds can return in one run: up to MaxFeed entries
Feeds == UNION {[1..n -> Entries] : n \in 0..MaxFeed}

\* The functions of the source, tabulated over the titles, texts and dates of
\* the entries and pages above, so that each is computed once.
Texts == {Page[link] : link \in DOMAIN Page}
parse_deal_details == [e \in {<<entry.title, Page[entry.link]>> : entry \in Entries} |->
                          _parse_deal_details(e[1], e[2])]
classify_industry == [text \in Texts |-> _classify_industry(text)]
identify_country == [text \in Texts |-> _identify_country(text)]
parse_date == [date_str \in {e.published : e \in Entries}, day \in 0..(MaxDay + 1) |->
                  _parse_date(date_str, DateOfDay(day))]
is_ma_related == [e \in Entries |-> _is_ma_related(e.title \o <<" ">> \o e.summary)]

\* ------------------------------------------------------------------------
\* The deal assembler (extract_deal_info)
\* ------------------------------------------------------------------------

\* the outcome of session.get(link) and soup.get_text(): the text of the
\* page, or an exception
Failure == [ok |-> FALSE]
Fetched(text) == [ok |-> TRUE, text |-> text]

\* the region of a country in TARGET_COUNTRIES, "" when it is in none
RegionOf(country) ==
    IF \E k \in DOMAIN TARGET_COUNTRIES : country \in TARGET_COUNTRIES[k].countries
    THEN TARGET_COUNTRIES[CHOOSE k \in DOMAIN TARGET_COUNTRIES :
                             country \in TARGET_COUNTRIES[k].countries].region
    ELSE ""

\* a variant that looks the region up
MADealWithRegion(article, deal_info, full_text, now) ==
    [deal_title |-> Get(deal_info, "title", article.title),
     date |-> parse_date[article.published, now.day],
     deal_value |-> Get(deal_info, "value", None),
     currency |-> Get(deal_info, "currency", "EUR"),
     deal_type |-> Get(deal_info, "type", "M&A"),
     acquirer_name |-> Get(deal_info, "acquirer", <<>>),
     target_name |-> Get(deal_info, "target", <<>>),
     industry |-> Get(deal_info, "industry", classify_industry[full_text]),
     country |-> Get(deal_info, "country", identify_country[full_text]),
     region |-> RegionOf(Get(deal_info, "country", identify_country[full_text])),
     source_url |-> article.link,
     scraped_at |-> now]

\* MADeal(...) as extract_deal_info builds it from deal_info
MADeal(article, deal_info, full_text, now) ==
    [deal_title |-> Get(deal_info, "title", article.title),
     date |-> parse_date[article.published, now.day],
     deal_value |-> Get(deal_info, "value", None),
     currency |-> Get(deal_info, "currency", "EUR"),
     deal_type |-> Get(deal_info, "type", "M&A"),
     acquirer_name |-> Get(deal_info, "acquirer", <<>>),
     target_name |-> Get(deal_info, "target", <<>>),
     industry |-> Get(deal_info, "industry", classify_industry[full_text]),
     country |-> Get(deal_info, "country", identify_country[full_text]),
     region |-> Get(deal_info, "region", ""),
     source_url |-> article.link,
     scraped_at |-> now]

\* a variant without the test for an empty deal_info
extract_deal_info_keeps_empty(article, response, now) ==
    IF ~response.ok THEN None
    ELSE
    LET deal_info == parse_deal_details[<<article.title, response.text>>]
    IN  IF ~_meets_criteria(deal_info) THEN None
        ELSE [deal_title |-> article.title,
              date |-> parse_date[article.published, now.day],
              deal_value |-> Get(deal_info, "value", None),
              currency |-> Get(deal_info, "currency", "EUR"),
              deal_type |-> "M&A",
              acquirer_name |-> Get(deal_info, "acquirer", <<>>),
              target_name |-> Get(deal_info, "target", <<>>),
              industry |-> classify_industry[response.text],
              country |-> identify_country[response.text],
              region |-> "",
              source_url |-> article.link,
              scraped_at |-> now]

\* a variant whose failed fetch leaves a record of the title alone
extract_deal_info_no_except(article, response, now) ==
    IF ~response.ok
    THEN [deal_title |-> article.title,
          date |-> parse_date[article.published, now.day],
          deal_value |-> None, currency |-> "EUR", deal_type |-> "M&A",
          acquirer_name |-> <<>>, target_name |-> <<>>,
          industry |-> "Other", country |-> "Unknown", region |-> "",
          source_url |-> article.link, scraped_at |-> now]
    ELSE
    LET deal_info == parse_deal_details[<<article.title, response.text>>]
    IN  IF DOMAIN deal_info = {} THEN None
        ELSE IF ~_meets_criteria(deal_info) THEN None
        ELSE [deal_title |-> article.title,
              date |-> parse_date[article.published, now.day],
              deal_value |-> Get(deal_info, "value", None),
              currency |-> Get(deal_info, "currency", "EUR"),
              deal_type |-> "M&A",
              acquirer_name |-> Get(deal_info, "acquirer", <<>>),
              target_name |-> Get(deal_info, "target", <<>>),
              industry |-> classify_industry[response.text],
              country |-> identify_country[response.text],
              region |-> "",
              source_url |-> article.link,
              scraped_at |-> now]

\* the MADeal of the article, or None; response is the outcome of the fetch
\* and now the reading of the clock
extract_deal_info(article, response, now) ==
    IF ~response.ok THEN None
    ELSE
    LET deal_info == parse_deal_details[<<article.title, response.text>>]
    IN  IF DOMAIN deal_info = {} THEN None
        ELSE IF ~_meets_criteria(deal_info) THEN None
        ELSE MADeal(article, deal_info, response.text, now)

\* ------------------------------------------------------------------------
\* Texts for the value patterns
\* ------------------------------------------------------------------------

MaxPhrases == 2

\* what stands before and after the number of a phrase
PhraseShapes == <<
    [pre |-> <<"€">>, post |-> <<" ", "m", "i", "l", "l", "i", "o", "n">>],
    [pre |-> <<"€">>, post |-> <<"B">>],
    [pre |-> <<"€">>, post |-> <<" ", "m", "b">>],
    [pre |-> <<"$">>, post |-> <<" ", "b", "i", "l", "l", "i", "o", "n">>],
    [pre |-> <<"$">>, post |-> <<"b">>],
    [pre |-> <<"$">>, post |-> <<"M">>],
    [pre |-> <<>>, post |-> <<" ", "m", "i", "l", "l", "i", "o", "n", " ", "e", "u", "r", "o">>],
    [pre |-> <<>>, post |-> <<" ", "B", "i", "l", "l", "i", "o", "n", " ", "E", "U", "R">>],
    [pre |-> <<>>, post |-> <<"b", "i", "l", "l", "i", "o", "n", "€">>],
    [pre |-> <<>>, post |-> <<" ", "m", "i", "l", "l", "i", "o", "n", " ", "e", "u", "r">>],
    [pre |-> <<>>, post |-> <<" ", "m", "i", "l", "l", "i", "o", "n">>],
    [pre |-> <<"a", "b", "o", "u", "t", " ">>, post |-> <<" ", "b">>] >>

\* the number of the k-th phrase of a text
PhraseNumbers == <<<<"3">>, <<"1", ".", "5">>, <<"2", "0">>, <<"0", ".", "2", "5">>, <<"7">>>>

\* the phrases of shapes[k..], each with its number, joined by single spaces
RECURSIVE Render(_, _)
Render(shapes, k) ==
    IF k > Len(shapes) THEN <<>>
    ELSE (IF k > 1 THEN <<" ">> ELSE <<>>)
         \o PhraseShapes[shapes[k]].pre \o PhraseNumbers[k] \o PhraseShapes[shapes[k]].post
         \o Render(shapes, k + 1)

Samples == {Render(shapes, 1) :
              shapes \in UNION {[1..n -> DOMAIN PhraseShapes] : n \in 0..MaxPhrases}}

\* ------------------------------------------------------------------------
\* The scraper
\* ------------------------------------------------------------------------

VARIABLES
    deals,      \* self.deals
    articles,   \* run_scraper's articles
    idx,        \* the position of run_scraper's loop in articles
    pc,         \* "idle", or "running" inside run_scraper
    now,        \* the clock: the day and the instant datetime.now() reads
    runs,       \* the number of run_scraper calls so far
    base,       \* history: len(self.deals) when the run in progress began
    trace,      \* history: for each article of the run in progress that the loop
                \* has passed, whether its fetch succeeded, the clock, the outcome
    sample,     \* ValueSpec: the text given to the value patterns
    extracted   \* ValueSpec: what the value patterns made of it, once they ran

vars == <<deals, articles, idx, pc, now, runs, base, trace, sample, extracted>>

Pending == [pending |-> TRUE]

\* __init__; run_scraper has not been called
Init ==
    /\ deals = <<>>
    /\ articles = <<>>
    /\ idx = 1
    /\ pc = "idle"
    /\ now = [day |-> 0, tick |-> 0]
    /\ runs = 0
    /\ base = 0
    /\ trace = <<>>
    /\ sample = <<>>
    /\ extracted = Pending

\* the article dictionary scrape_rss_feeds appends for an entry
ArticleOf(entry) ==
    [title |-> entry.title, link |-> entry.link,
     published |-> entry.published, summary |-> entry.summary]

\* scrape_rss_feeds: the entries that are about M&A, in feed order
RECURSIVE scrape_rss_feeds(_)
scrape_rss_feeds(feed) ==
    IF feed = <<>> THEN <<>>
    ELSE (IF is_ma_related[Head(feed)]
          THEN <<ArticleOf(Head(feed))>> ELSE <<>>)
         \o scrape_rss_feeds(Tail(feed))

\* what scrape_rss_feeds can return
Scraped == {scrape_rss_feeds(feed) : feed \in Feeds}

\* a variant that starts every run with an empty list
StartRunReset ==
    /\ pc = "idle"
    /\ runs < MaxRuns
    /\ \E found \in Scraped :
          /\ now.tick + Len(found) <= MaxTick
          /\ articles' = found
    /\ idx' = 1
    /\ pc' = "running"
    /\ runs' = runs + 1
    /\ base' = 0
    /\ trace' = <<>>
    /\ deals' = <<>>
    /\ UNCHANGED <<now, sample, extracted>>

\* run_scraper, step 1: the articles of the feeds
StartRun ==
    /\ pc = "idle"
    /\ runs < MaxRuns
    /\ \E found \in Scraped :
          /\ now.tick + Len(found) <= MaxTick
          /\ articles' = found
    /\ idx' = 1
    /\ pc' = "running"
    /\ runs' = runs + 1
    /\ base' = Len(deals)
    /\ trace' = <<>>
    /\ UNCHANGED <<deals, now, sample, extracted>>

\* the clock after one article and its pause: later, and perhaps the next day
Later(midnight) ==
    [day |-> IF midnight THEN now.day + 1 ELSE now.day, tick |-> now.tick + 1]

\* run_scraper, step 2: one turn of the loop over the articles
ProcessArticle(response, midnight) ==
    /\ pc = "running"
    /\ idx <= Len(articles)
    /\ now.tick < MaxTick
    /\ midnight => now.day < MaxDay
    /\ \E deal \in {extract_deal_info(articles[idx], response, now)} :
           /\ deals' = IF deal # None THEN Append(deals, deal) ELSE deals
           /\ trace' = Append(trace, [ok |-> response.ok, now |-> now, deal |-> deal])
    /\ idx' = idx + 1
    /\ now' = Later(midnight)
    /\ UNCHANGED <<articles, pc, runs, base, sample, extracted>>

\* run_scraper returns self.deals; its locals are gone
FinishRun ==
    /\ pc = "running"
    /\ idx > Len(articles)
    /\ pc' = "idle"
    /\ articles' = <<>>
    /\ idx' = 1
    /\ trace' = <<>>
    /\ UNCHANGED <<deals, now, runs, base, sample, extracted>>

\* session.get(article['link']) returns the page
FetchOk == \E midnight \in BOOLEAN :
    ProcessArticle(Fetched(Page[articles[idx].link]), midnight)

\* session.get(article['link']) raises
FetchFails == \E midnight \in BOOLEAN : ProcessArticle(Failure, midnight)

Next == StartRun \/ FetchOk \/ FetchFails \/ FinishRun

Spec == Init /\ [][Next]_vars

\* ------------------------------------------------------------------------
\* The value patterns on their own
\* ------------------------------------------------------------------------

\* any text of Samples, not yet searched
ValueInit ==
    /\ deals = <<>>
    /\ articles = <<>>
    /\ idx = 1
    /\ pc = "idle"
    /\ now = [day |-> 0, tick |-> 0]
    /\ runs = 0
    /\ base = 0
    /\ trace = <<>>
    /\ sample \in Samples
    /\ extracted = Pending

\* the first loop of _parse_deal_details on the text
ApplyValuePatterns ==
    /\ extracted = Pending
    /\ extracted' = ExtractValue(sample, 1)
    /\ UNCHANGED <<deals, articles, idx, pc, now, runs, base, trace, sample>>

ValueSpec == ValueInit /\ [][ApplyValuePatterns]_vars

\* ------------------------------------------------------------------------
\* Properties
\* ------------------------------------------------------------------------

\* the articles of the run in progress that the loop has passed
Passed == DOMAIN trace

\* the page the k-th article links to, and what _parse_deal_details makes of it
TextOf(k) == Page[articles[k].link]
InfoOf(k) == parse_deal_details[<<articles[k].title, TextOf(k)>>]

\* two outcomes that are both nothing, or two records equal but for the fields named
SameExcept(a, b, fields) ==
    \/ a = None /\ b = None
    \/ /\ a # None
       /\ b # None
       /\ \A f \in (DOMAIN a) \ fields : a[f] = b[f]

\* C1: a candidate with no value is admitted, and one with a value (0 and the
\* values below 10 included) is admitted exactly when 10 <= value <= 500.
C1_AdmitsExactlyTheRange ==
    \A k \in Passed : trace[k].ok =>
        (_meets_criteria(InfoOf(k)) <=> ("value" \in DOMAIN InfoOf(k) => InRange(InfoOf(k).value)))

\* C2 as claimed: an article whose fetch succeeds yields a record unless the
\* admission filter rejects, also when nothing at all is extracted.
C2_MissNeverRejects ==
    \A k \in Passed : trace[k].ok => (trace[k].deal # None <=> _meets_criteria(InfoOf(k)))

\* C2 as amended: an article whose fetch succeeds yields a record unless the
\* admission filter rejects or nothing at all (no value, no acquirer, no
\* target) is extracted; a field that is missed takes its default: no value
\* gives deal_value None and currency "EUR", a missing name gives the empty
\* string, and industry and country come from the classifiers.
C2_OnlyTotalMissRejects ==
    \A k \in Passed : trace[k].ok =>
        /\ trace[k].deal # None <=> (DOMAIN InfoOf(k) # {} /\ _meets_criteria(InfoOf(k)))
        /\ trace[k].deal # None =>
              /\ "value" \notin DOMAIN InfoOf(k) =>
                    trace[k].deal.deal_value = None /\ trace[k].deal.currency = "EUR"
              /\ "acquirer" \notin DOMAIN InfoOf(k) => trace[k].deal.acquirer_name = <<>>
              /\ "target" \notin DOMAIN InfoOf(k) => trace[k].deal.target_name = <<>>
              /\ trace[k].deal.industry = classify_industry[TextOf(k)]
              /\ trace[k].deal.country = identify_country[TextOf(k)]

\* C2, its case: one article with nothing extracted gave nothing, another with
\* no value but a name gave a record
C2_Witness ==
    /\ \E k \in Passed : trace[k].ok /\ DOMAIN InfoOf(k) = {} /\ trace[k].deal = None
    /\ \E k \in Passed : /\ trace[k].ok
                         /\ "value" \notin DOMAIN InfoOf(k)
                         /\ trace[k].deal # None
                         /\ trace[k].deal.deal_value = None

\* C3: every record in self.deals has no value or a value in 10..500.
C3_DealsAreInRange ==
    \A k \in DOMAIN deals : deals[k].deal_value = None \/ InRange(deals[k].deal_value)

\* what the value patterns and the classifiers make of the title joined to the text
on_title_and_text ==
    [e \in {<<entry.title, Page[entry.link]>> : entry \in Entries} |->
        LET both == TitleAndText(e[1], e[2])
        IN  [deal_value |-> Get(ExtractValue(both, 1), "value", None),
             currency |-> Get(ExtractValue(both, 1), "currency", "EUR"),
             industry |-> _classify_industry(both),
             country |-> _identify_country(both)]]

\* C4: value, currency, industry and country of a record are what the value
\* patterns and the classifiers find in the title joined to the text.
C4_TitleIsSearched ==
    \A k \in Passed : trace[k].deal # None =>
        \A f \in {"deal_value", "currency", "industry", "country"} :
            trace[k].deal[f] = on_title_and_text[<<articles[k].title, TextOf(k)>>][f]

\* pattern i matches somewhere in t
HasMatch(i, t) == \E p \in 1..Len(t) : ValueMatchAt(value_patterns[i], t, p).found

\* C5: the value and currency come from the first pattern, in the order euro
\* sign, dollar sign, number before unit and euro word, that matches anywhere
\* in the text, wherever the matches lie; with no match nothing is returned.
C5_FirstPatternWins ==
    extracted # Pending =>
        LET hits == {i \in DOMAIN value_patterns : HasMatch(i, sample)}
        IN  IF hits = {} THEN extracted = <<>>
            ELSE /\ extracted = ValueKeys(ValueSearch(value_patterns[SetMin(hits)], sample))
                 /\ 1 \in hits => extracted.currency = "EUR"
                 /\ (1 \notin hits /\ 2 \in hits) => extracted.currency = "USD"

\* C5, its case: a dollar phrase stands before a euro phrase and the euro phrase is taken
C5_Witness ==
    /\ extracted # Pending
    /\ HasMatch(1, sample)
    /\ HasMatch(2, sample)
    /\ ValueSearch(value_patterns[2], sample).start < ValueSearch(value_patterns[1], sample).start
    /\ extracted = ValueKeys(ValueSearch(value_patterns[1], sample))
    /\ extracted.currency = "EUR"

IsLetter(c) == c \in Range(Lowercase) \cup Range(Uppercase)

\* the first position >= p that holds no letter
RECURSIVE LettersEnd(_, _)
LettersEnd(t, p) == IF p <= Len(t) /\ IsLetter(t[p]) THEN LettersEnd(t, p + 1) ELSE p

\* the unit of a matched span: its first run of letters, in lower case
UnitOf(group0) ==
    LET p == SetMin({q \in DOMAIN group0 : IsLetter(group0[q])})
    IN  lower(Slice(group0, p, LettersEnd(group0, p) - 1))

\* C6: every match of a value pattern has the unit million, billion, m or b;
\* its magnitude is multiplied by 1000 exactly when the unit is billion or b,
\* and the value returned is that of one of the matches.
C6_ThousandfoldIffBillion ==
    extracted # Pending =>
        /\ \A i \in DOMAIN value_patterns : \A p \in 1..Len(sample) :
              LET m == ValueMatchAt(value_patterns[i], sample, p)
              IN  m.found =>
                    /\ UnitOf(m.group0) \in {<<"m", "i", "l", "l", "i", "o", "n">>, <<"b", "i", "l", "l", "i", "o", "n">>, <<"m">>, <<"b">>}
                    /\ ValueKeys(m).value =
                          IF UnitOf(m.group0) \in {<<"b", "i", "l", "l", "i", "o", "n">>, <<"b">>}
                          THEN Times(float(m.group1), 1000)
                          ELSE float(m.group1)
        /\ extracted # <<>> =>
              \E i \in DOMAIN value_patterns : \E p \in 1..Len(sample) :
                  /\ ValueMatchAt(value_patterns[i], sample, p).found
                  /\ extracted = ValueKeys(ValueMatchAt(value_patterns[i], sample, p))

\* C6, its case: a match with the unit m, a letter b right after it, is not
\* multiplied, and the text also holds a match with the unit b, which is
C6_Witness ==
    /\ extracted # Pending
    /\ LET m == ValueSearch(value_patterns[1], sample)
       IN  /\ m.found
           /\ UnitOf(m.group0) = <<"m">>
           /\ Contains(sample, m.group0 \o <<"b">>)
           /\ extracted.value = float(m.group1)
    /\ LET m == ValueSearch(value_patterns[2], sample)
       IN  /\ m.found
           /\ UnitOf(m.group0) = <<"b">>
           /\ ValueKeys(m).value = Times(float(m.group1), 1000)

\* the records the articles k.. of the trace give when the ones whose fetch
\* failed are left out: each from its own article, page and clock reading
RECURSIVE RecordsWithoutFailed(_)
RecordsWithoutFailed(k) ==
    IF k > Len(trace) THEN <<>>
    ELSE LET deal == extract_deal_info(articles[k], Fetched(TextOf(k)), trace[k].now)
         IN  (IF trace[k].ok /\ deal # None THEN <<deal>> ELSE <<>>)
             \o RecordsWithoutFailed(k + 1)

C8_SameButScrapedAt ==
    \A j, k \in Passed :
        (articles[j] = articles[k] /\ trace[j].ok /\ trace[k].ok)
            => SameExcept(trace[j].deal, trace[k].deal, {"scraped_at"})

\* the date string is one _parse_date can parse
Parses(date_str) ==
    \/ date_str # <<>> /\ strptime(Prefix(date_str, 19), IsoFormat).ok
    \/ /\ Len(split(date_str, ",")) >= 2
       /\ strptime(Prefix(strip(split(date_str, ",")[2]), 11), RssFormat).ok

parses == [date_str \in {e.published : e \in Entries} |-> Parses(date_str)]

\* C8 as amended: two calls on the same article with the same fetched text
\* give nothing both times, or records equal but for scraped_at and date; the
\* dates are equal too when the published string parses or both calls are
\* made on the same day, and are the days of the calls when it does not parse.
C8_SameButScrapedAtAndFallbackDate ==
    \A j, k \in Passed :
        (articles[j] = articles[k] /\ trace[j].ok /\ trace[k].ok) =>
            /\ SameExcept(trace[j].deal, trace[k].deal, {"scraped_at", "date"})
            /\ trace[j].deal # None =>
                  /\ (parses[articles[j].published] \/ trace[j].now.day = trace[k].now.day)
                        => trace[j].deal.date = trace[k].deal.date
                  /\ ~parses[articles[j].published]
                        => trace[j].deal.date = isoformat(DateOfDay(trace[j].now.day))

\* C8, its case: the same article twice, on two days: once with a date that
\* does not parse, once with one that does
C8_Witness ==
    \E j, k \in Passed :
        /\ articles[j] = articles[k]
        /\ trace[j].ok /\ trace[k].ok
        /\ trace[j].now.day # trace[k].now.day
        /\ trace[j].deal # None /\ trace[k].deal # None
        /\ ~parses[articles[j].published]
        /\ trace[j].deal.date # trace[k].deal.date

C10_AppendOnly ==
    [][IF pc = "running" /\ idx' = idx + 1 /\ trace'[idx].deal # None
       THEN deals' = Append(deals, trace'[idx].deal)
       ELSE deals' = deals]_vars

\* C10, its case: a second run over the same article left its record in the
\* list a second time, after the first run's
C10_Witness ==
    /\ runs = 2
    /\ \E j, k \in DOMAIN deals :
          /\ j <= base
          /\ base < k
          /\ SameExcept(deals[j], deals[k], {"scraped_at"})

====
